---- MODULE Spec2Model ----
(***************************************************************************)
(* Gemstone price prediction service.                                      *)
(*                                                                         *)
(* app.py          Flask API: /predict turns a loosely typed payload into  *)
(*                 the feature vector of the trained model and answers     *)
(*                 with the predicted price.                               *)
(* streamlitapp.py dashboard variant: builds the same vector from widget   *)
(*                 state when the predict button is pressed.               *)
(*                                                                         *)
(* Python values are modelled as follows.  Floats are integers (the raw    *)
(* inputs of the model carry no fractional part other than ".0"); prices   *)
(* are integer cents.  None, dicts and lists are tagged records, strings   *)
(* are TLA+ strings, a dict's content is a function from its keys.         *)
(***************************************************************************)
EXTENDS Integers, Sequences, FiniteSets, TLC

\* ---------------------------------------------------------------- bounds
NumRequests == 2      \* concurrent /predict requests (SpecConc)
MaxKeys == 2           \* keys in one request payload (Spec)
MaxNum == 1            \* slider values: the minimum + 0..MaxNum (SpecBuild)
MaxDigits == 1        \* digits of a decimal literal float() is tried on

\* ----------------------------------------------------------------- state
VARIABLES
    artifacts,            \* the model files present at process start
    MODEL, FEATURE_NAMES, \* app.py globals, line 51
    MODEL_LOADED_STATUS, REQUEST_COUNT, REQUEST_LATENCY,  \* metrics: gauge, increments, observations
    pc,                   \* position of each /predict request in the handler
    request,              \* flask's request of each handler invocation
    frame,                \* the handler's locals
    response,             \* what the handler returned
    calls,                \* invocations of normalizer, vector builder and model per request
    st_model, st_feature_names,   \* streamlitapp.py globals, line 56
    st_widgets,           \* sidebar widget state
    st_run                \* outcome of the script run with the button pressed

appVars == <<artifacts, MODEL, FEATURE_NAMES, MODEL_LOADED_STATUS, REQUEST_COUNT,
             REQUEST_LATENCY, pc, request, frame, response, calls>>
stVars == <<st_model, st_feature_names, st_widgets, st_run>>
vars == <<artifacts, MODEL, FEATURE_NAMES, MODEL_LOADED_STATUS, REQUEST_COUNT,
          REQUEST_LATENCY, pc, request, frame, response, calls,
          st_model, st_feature_names, st_widgets, st_run>>

\* ------------------------------------------------------- python values
None == [t |-> "None"]
Str(s) == [t |-> "str", s |-> s]
Num(v) == [t |-> "num", v |-> v]
Dict(d) == [t |-> "dict", d |-> d]
List(n) == [t |-> "list", n |-> n]
EmptyDict == Dict([k \in {} |-> None])
Unset == [t |-> "unset"]

\* bool(v) gone wrong: only None counts as false ("if data is None")
Truthy_NoneOnly(v) == v.t # "None"

\* bool(v) as `or` and `not` use it
Truthy(v) ==
    CASE v.t = "None" -> FALSE
      [] v.t = "dict" -> DOMAIN v.d # {}
      [] v.t = "list" -> v.n > 0
      [] v.t = "str" -> v.s # ""
      [] v.t = "num" -> v.v # 0
      [] OTHER -> TRUE

\* a or b
PyOr(a, b) == IF Truthy(a) THEN a ELSE b

\* ------------------------------------------------------------ exceptions
NoExc == [type |-> "", msg |-> ""]
Raise(type, msg) == [type |-> type, msg |-> msg]
Ok(v) == [ok |-> TRUE, v |-> v, exc |-> NoExc]
Err(type, msg) == [ok |-> FALSE, v |-> 0, exc |-> Raise(type, msg)]

\* type(v).__name__
TypeName(v) ==
    CASE v.t = "None" -> "NoneType"
      [] v.t = "num" -> "int"
      [] OTHER -> v.t

\* ------------------------------------------------------------- float()
DigitChars == <<"0", "1", "2", "3", "4", "5", "6", "7", "8", "9">>

RECURSIVE DigitStrings(_)
\* the decimal digit strings of exactly n digits, with their values
DigitStrings(n) ==
    IF n = 0 THEN {[text |-> "", value |-> 0]}
    ELSE {[text |-> p.text \o DigitChars[d + 1], value |-> 10 * p.value + d] :
             p \in DigitStrings(n - 1), d \in 0..9}

\* the literals float() accepts, within MaxDigits digits and a zero fraction:
\* optional whitespace, optional sign, digits, optional ".0", optional whitespace
FloatLiterals ==
    {[text |-> l \o sg[1] \o ds.text \o fr \o r, value |-> sg[2] * ds.value] :
        l \in {"", " "}, r \in {"", " "},
        sg \in {<<"", 1>>, <<"+", 1>>, <<"-", -1>>},
        fr \in {"", ".0"},
        ds \in UNION {DigitStrings(n) : n \in 1..MaxDigits}}

\* the value of each literal, by its text
FloatValue ==
    [s \in {lit.text : lit \in FloatLiterals} |->
        (CHOOSE lit \in FloatLiterals : lit.text = s).value]

\* float(v) gone wrong: a value that does not parse becomes 0.0
PyFloat_Lenient(v) ==
    CASE v.t = "num" -> Ok(v.v)
      [] v.t = "str" -> IF v.s \in DOMAIN FloatValue THEN Ok(FloatValue[v.s]) ELSE Ok(0)
      [] OTHER -> Ok(0)

\* float(v): a number converts, a string is parsed, anything else is a TypeError
PyFloat(v) ==
    CASE v.t = "num" -> Ok(v.v)
      [] v.t = "str" ->
            IF v.s \in DOMAIN FloatValue
            THEN Ok(FloatValue[v.s])
            ELSE Err("ValueError", "could not convert string to float: '" \o v.s \o "'")
      [] OTHER -> Err("TypeError", "float() argument must be a string or a real number, not '" \o TypeName(v) \o "'")

\* data.get(key) gone wrong: the default is ignored
DictGet_NoDefault(d, key, default) == IF key \in DOMAIN d THEN d[key] ELSE None

\* data.get(key, default) of a dict / MultiDict
DictGet(d, key, default) == IF key \in DOMAIN d THEN d[key] ELSE default

\* d[key] = value
DictSet(d, key, value) ==
    [n \in DOMAIN d \cup {key} |-> IF n = key THEN value ELSE d[n]]

\* {name: 0 for name in names}
ZeroDict(names) == [n \in {names[i] : i \in 1..Len(names)} |-> 0]

NaN == "NaN"

\* pd.DataFrame([input_dict]) gone wrong: without columns= every key of the
\* dict is a column, the keys that are no feature name come last
DataFrameRow_AllKeys(input_dict, names) ==
    LET extra == DOMAIN input_dict \ {names[i] : i \in 1..Len(names)}
    IN  [i \in 1..Len(names) |->
            IF names[i] \in DOMAIN input_dict THEN input_dict[names[i]] ELSE NaN]
        \o [i \in 1..Cardinality(extra) |-> 1]

\* pd.DataFrame([input_dict], columns=names): the single row, one cell per
\* column in the order of names; keys that are no column are dropped
DataFrameRow(input_dict, names) ==
    [i \in 1..Len(names) |->
        IF names[i] \in DOMAIN input_dict THEN input_dict[names[i]] ELSE NaN]

\* ------------------------------------------------------------ formatting
RECURSIVE NatStr(_)
NatStr(n) == IF n < 10 THEN DigitChars[n + 1]
             ELSE NatStr(n \div 10) \o DigitChars[(n % 10) + 1]

Pad(n, width) ==
    LET s == NatStr(n)
    IN  IF Len(s) >= width THEN s
        ELSE IF width - Len(s) = 1 THEN "0" \o s ELSE "00" \o s

RECURSIVE Grouped(_)
\* the "," option: groups of three digits
Grouped(n) == IF n < 1000 THEN NatStr(n)
              ELSE Grouped(n \div 1000) \o "," \o Pad(n % 1000, 3)

\* f"${prediction:,.2f}" of a price given in cents
FormatPrice(cents) ==
    LET a == IF cents < 0 THEN -cents ELSE cents
    IN  "$" \o (IF cents < 0 THEN "-" ELSE "") \o Grouped(a \div 100)
            \o "." \o Pad(a % 100, 2)

\* ---------------------------------------------------------------- schema
MODEL_PATH == "rfmodel_compressed_max.joblib"
FEATURE_PATH == "feature.joblib"

NumericFields == <<"carat", "depth", "table", "x", "y", "z">>
CategoricalFields == <<"cut", "color", "clarity">>

CUT_OPTIONS == <<"Ideal", "Premium", "Very Good", "Good", "Fair">>
COLOR_KEYS == <<"D", "E", "F", "G", "H", "I", "J">>
CLARITY_KEYS == <<"IF", "VVS1", "VVS2", "VS1", "VS2", "SI1", "SI2", "I1">>

Range(s) == {s[i] : i \in 1..Len(s)}

\* the f-string gone wrong: no separator
OneHotName_NoSeparator(field, category) == field \o category

\* f'{field}_{category}'
OneHotName(field, category) == field \o "_" \o category

Options(field) ==
    CASE field = "cut" -> CUT_OPTIONS
      [] field = "color" -> COLOR_KEYS
      [] field = "clarity" -> CLARITY_KEYS

\* content of feature.joblib: the ordered feature names the model was trained on
FeatureArtifact ==
    <<"carat", "depth", "table", "x", "y", "z",
      "cut_Ideal", "cut_Premium", "cut_Very Good", "cut_Good", "cut_Fair",
      "color_D", "color_E", "color_F", "color_G", "color_H", "color_I", "color_J",
      "clarity_IF", "clarity_VVS1", "clarity_VVS2", "clarity_VS1", "clarity_VS2",
      "clarity_SI1", "clarity_SI2", "clarity_I1">>

\* content of the model file: the model is an opaque function
ModelArtifact == [t |-> "model"]
Names(v) == [t |-> "names", v |-> v]

\* the loader gone wrong: each object is loaded on its own
load_independently(files) ==
    [model |-> IF MODEL_PATH \in files THEN ModelArtifact ELSE None,
     feature_names |-> IF FEATURE_PATH \in files THEN Names(FeatureArtifact) ELSE None,
     status |-> IF MODEL_PATH \in files /\ FEATURE_PATH \in files THEN 1 ELSE 0]

\* load_model_and_features(): both objects, or (None, None) as soon as one
\* file is missing; files is the set of paths that exist
load_model_and_features(files) ==
    IF MODEL_PATH \in files /\ FEATURE_PATH \in files
    THEN [model |-> ModelArtifact, feature_names |-> Names(FeatureArtifact), status |-> 1]
    ELSE [model |-> None, feature_names |-> None, status |-> 0]

\* -------------------------------------------------------------- payloads
NumericKeys == Range(NumericFields)
CategoricalKeys == Range(CategoricalFields)
UnknownKey == "foo"
AllKeys == NumericFields \o CategoricalFields \o <<UnknownKey>>
ConcKeys == <<"carat", "cut">>

UnknownCategory(field) ==
    CASE field = "cut" -> "NotARealCut"
      [] field = "color" -> "d"
      [] field = "clarity" -> "Ideal"

\* the raw values a client sends under a key, per transport
RawValues(transport, key) ==
    IF key \in NumericKeys
    THEN CASE transport = "json" -> {Num(2), Str("-1"), Str("abc"), None}
           [] transport = "form" -> {Str("2"), Str(" 1.0 "), Str("1,5"), Str("")}
           [] transport = "conc" -> {Num(2), Str("abc")}
    ELSE IF key \in CategoricalKeys
    THEN {Str(Options(key)[2]), Str(UnknownCategory(key))}
    ELSE {Str("bar")}

RECURSIVE DictsFrom(_, _, _, _)
\* the dicts over the keys keys[i], keys[i+1], ... with at most budget keys
DictsFrom(transport, keys, i, budget) ==
    IF i > Len(keys) \/ budget = 0 THEN {EmptyDict.d}
    ELSE DictsFrom(transport, keys, i + 1, budget)
         \cup {DictSet(d, keys[i], v) :
                  d \in DictsFrom(transport, keys, i + 1, budget - 1),
                  v \in RawValues(transport, keys[i])}

PayloadDicts(transport, keys, maxKeys) == DictsFrom(transport, keys, 1, maxKeys)

\* a request as flask presents it: get_json(silent=True) and form
Request(json, form) == [json |-> json, form |-> form]

\* no body at all or a body that is no JSON; a JSON body; a form body
Requests ==
    {Request(None, EmptyDict), Request(List(0), EmptyDict), Request(List(1), EmptyDict)}
    \cup {Request(Dict(d), EmptyDict) : d \in PayloadDicts("json", AllKeys, MaxKeys)}
    \cup {Request(None, Dict(d)) : d \in PayloadDicts("form", AllKeys, MaxKeys)}

ConcRequests ==
    {Request(None, EmptyDict)}
    \cup {Request(Dict(d), EmptyDict) : d \in PayloadDicts("conc", ConcKeys, 1)}

\* what MODEL.predict(input_df)[0] does: a price in cents, or it raises
Prices == {0, 123456789}
ModelOutcomes == {Ok(p) : p \in Prices} \cup {Err("ValueError", "X has a different shape")}

RequestIds == 1..NumRequests

\* str(v) as an f-string renders it
PyFormat(v) ==
    CASE v.t = "str" -> v.s
      [] v.t = "num" -> (IF v.v < 0 THEN "-" \o NatStr(-v.v) ELSE NatStr(v.v))
      [] OTHER -> v.t

\* ------------------------------------------------------- app.py: /predict
\* lines 109-125: the data of the request, the six floats, the three categories
Normalize(req) ==
    LET data == PyOr(req.json, req.form)
        Get(key, default) == DictGet(data.d, key, default)
        carat == PyFloat(Get("carat", Num(0)))
        depth == PyFloat(Get("depth", Num(0)))
        table == PyFloat(Get("table", Num(0)))
        x == PyFloat(Get("x", Num(0)))
        y == PyFloat(Get("y", Num(0)))
        z == PyFloat(Get("z", Num(0)))
        Fail(e) == [ok |-> FALSE, exc |-> e, data |-> data, norm |-> Unset]
    IN  IF ~Truthy(data)
        THEN Fail(Raise("ValueError", "No input data provided in the request body."))
        ELSE IF data.t # "dict"
        THEN Fail(Raise("AttributeError", "'" \o TypeName(data) \o "' object has no attribute 'get'"))
        ELSE IF ~carat.ok THEN Fail(carat.exc)
        ELSE IF ~depth.ok THEN Fail(depth.exc)
        ELSE IF ~table.ok THEN Fail(table.exc)
        ELSE IF ~x.ok THEN Fail(x.exc)
        ELSE IF ~y.ok THEN Fail(y.exc)
        ELSE IF ~z.ok THEN Fail(z.exc)
        ELSE [ok |-> TRUE, exc |-> NoExc, data |-> data,
              norm |-> [carat |-> carat.v, depth |-> depth.v, table |-> table.v,
                        x |-> x.v, y |-> y.v, z |-> z.v,
                        cut |-> Get("cut", Str("Ideal")),
                        color |-> Get("color", Str("D")),
                        clarity |-> Get("clarity", Str("IF"))]]

\* the dict gone wrong: one module-level dict, filled by every request and
\* never reset
AppInputDict_Shared(names, n) ==
    LET built == {q \in DOMAIN calls : calls[q].builder = 1 /\ frame[q].exc.type # "TypeError"}
        d0 == IF built = {} THEN ZeroDict(names)
              ELSE frame[CHOOSE q \in built : TRUE].input_dict
        d1 == DictSet(d0, "carat", n.carat)
        d2 == DictSet(d1, "depth", n.depth)
        d3 == DictSet(d2, "table", n.table)
        d4 == DictSet(d3, "x", n.x)
        d5 == DictSet(d4, "y", n.y)
        d6 == DictSet(d5, "z", n.z)
        d7 == DictSet(d6, OneHotName("cut", PyFormat(n.cut)), 1)
        d8 == DictSet(d7, OneHotName("color", PyFormat(n.color)), 1)
    IN  DictSet(d8, OneHotName("clarity", PyFormat(n.clarity)), 1)

\* lines 128-141: the dict of the feature values
AppInputDict(names, n) ==
    LET d0 == ZeroDict(names)
        d1 == DictSet(d0, "carat", n.carat)
        d2 == DictSet(d1, "depth", n.depth)
        d3 == DictSet(d2, "table", n.table)
        d4 == DictSet(d3, "x", n.x)
        d5 == DictSet(d4, "y", n.y)
        d6 == DictSet(d5, "z", n.z)
        d7 == DictSet(d6, OneHotName("cut", PyFormat(n.cut)), 1)
        d8 == DictSet(d7, OneHotName("color", PyFormat(n.color)), 1)
    IN  DictSet(d8, OneHotName("clarity", PyFormat(n.clarity)), 1)

\* line 143: the row handed to the model
AppInputDf(names, n) == DataFrameRow(AppInputDict(names, n), names)

\* line 101
UnavailableResponse ==
    [status |-> 500, body |-> [error |-> "Model not loaded on the server."]]

\* the except branch gone wrong: a server error without the description
ErrorResponse_Opaque(e) ==
    [status |-> 500, body |-> [error |-> "Internal server error"]]

\* line 156
ErrorResponse(e) ==
    [status |-> 400,
     body |-> [error |-> "An error occurred during prediction: " \o e.msg]]

\* lines 149-152
SuccessResponse(prediction) ==
    [status |-> 200,
     body |-> [predicted_price |-> FormatPrice(prediction), raw_price |-> prediction]]

\* ------------------------------------------------------- streamlitapp.py
ST_MODEL_PATH == "rfmodel.joblib"

\* load_model()
load_model(files) ==
    IF ST_MODEL_PATH \in files /\ FEATURE_PATH \in files
    THEN [model |-> ModelArtifact, feature_names |-> Names(FeatureArtifact)]
    ELSE [model |-> None, feature_names |-> None]

color_options ==
    [k \in Range(COLOR_KEYS) |->
        CASE k = "D" -> "D - Colorless (Best)"
          [] k = "E" -> "E - Colorless (Near Perfect)"
          [] k = "F" -> "F - Colorless (Slight Tint)"
          [] k = "G" -> "G - Near Colorless"
          [] k = "H" -> "H - Near Colorless (Slight Yellow)"
          [] k = "I" -> "I - Near Colorless (More Tint)"
          [] k = "J" -> "J - Faint Color"]

clarity_options ==
    [k \in Range(CLARITY_KEYS) |->
        CASE k = "IF" -> "IF - Internally Flawless"
          [] k = "VVS1" -> "VVS1 - Very Very Slightly Included (1)"
          [] k = "VVS2" -> "VVS2 - Very Very Slightly Included (2)"
          [] k = "VS1" -> "VS1 - Very Slightly Included (1)"
          [] k = "VS2" -> "VS2 - Very Slightly Included (2)"
          [] k = "SI1" -> "SI1 - Slightly Included (1)"
          [] k = "SI2" -> "SI2 - Slightly Included (2)"
          [] k = "I1" -> "I1 - Included (Lowest Clarity)"]

\* [k for k, v in options.items() if v == label][0], items in insertion order
KeyOfLabel(keys, options, label) ==
    LET hits == {i \in 1..Len(keys) : options[keys[i]] = label}
    IN  keys[CHOOSE i \in hits : \A j \in hits : i <= j]

\* get_user_input(): the widget state as the input record
get_user_input(w) ==
    [carat |-> w.carat, cut |-> w.cut,
     color |-> KeyOfLabel(COLOR_KEYS, color_options, w.color_label),
     clarity |-> KeyOfLabel(CLARITY_KEYS, clarity_options, w.clarity_label),
     depth |-> w.depth, table |-> w.table, x |-> w.x, y |-> w.y, z |-> w.z]

\* lines 162-171
StInputDict(names, user_input) ==
    LET d0 == ZeroDict(names)
        d1 == DictSet(d0, "carat", user_input.carat)
        d2 == DictSet(d1, "depth", user_input.depth)
        d3 == DictSet(d2, "table", user_input.table)
        d4 == DictSet(d3, "x", user_input.x)
        d5 == DictSet(d4, "y", user_input.y)
        d6 == DictSet(d5, "z", user_input.z)
        d7 == DictSet(d6, OneHotName("cut", user_input.cut), 1)
        d8 == DictSet(d7, OneHotName("color", user_input.color), 1)
    IN  DictSet(d8, OneHotName("clarity", user_input.clarity), 1)

\* the row gone wrong: the columns in reverse order
StInputDf_Reversed(names, user_input) ==
    DataFrameRow(StInputDict(names, user_input),
                 [i \in 1..Len(names) |-> names[Len(names) + 1 - i]])

\* line 172
StInputDf(names, user_input) == DataFrameRow(StInputDict(names, user_input), names)

\* ---------------------------------------------------------- initial state
NoFrame == [data |-> Unset, norm |-> Unset, input_dict |-> Unset, input_df |-> Unset,
            prediction |-> Unset, exc |-> NoExc, timing |-> FALSE]
NoCalls == [normalizer |-> 0, builder |-> 0, model |-> 0]

\* the initial widget values
DefaultWidgets ==
    [carat |-> 1, depth |-> 60, table |-> 55, x |-> 5, y |-> 5, z |-> 3,
     cut |-> CUT_OPTIONS[1], color_label |-> color_options[COLOR_KEYS[1]],
     clarity_label |-> clarity_options[CLARITY_KEYS[1]]]

\* module import of both programs, given the files on disk
Startup(files) ==
    /\ artifacts = files
    /\ MODEL = load_model_and_features(files).model
    /\ FEATURE_NAMES = load_model_and_features(files).feature_names
    /\ MODEL_LOADED_STATUS = load_model_and_features(files).status
    /\ REQUEST_COUNT = 0
    /\ REQUEST_LATENCY = 0
    /\ st_model = load_model(files).model
    /\ st_feature_names = load_model(files).feature_names
    /\ st_run = Unset

Init ==
    /\ \E files \in SUBSET {MODEL_PATH, FEATURE_PATH} : Startup(files)
    /\ pc = [r \in RequestIds |-> "idle"]
    /\ request = [r \in RequestIds |-> Unset]
    /\ frame = [r \in RequestIds |-> NoFrame]
    /\ response = [r \in RequestIds |-> Unset]
    /\ calls = [r \in RequestIds |-> NoCalls]
    /\ st_widgets = DefaultWidgets

\* ---------------------------------------------------------------- actions
\* line 98: a request arrives and is counted
Enter(r, reqs) ==
    /\ pc[r] = "idle"
    /\ \E req \in reqs : request' = [request EXCEPT ![r] = req]
    /\ REQUEST_COUNT' = REQUEST_COUNT + 1
    /\ pc' = [pc EXCEPT ![r] = "gate"]
    /\ UNCHANGED <<artifacts, MODEL, FEATURE_NAMES, MODEL_LOADED_STATUS,
                   REQUEST_LATENCY, frame, response, calls, stVars>>

\* lines 100-101: no model, the handler returns at once
GateUnavailable(r) ==
    /\ pc[r] = "gate"
    /\ MODEL = None
    /\ response' = [response EXCEPT ![r] = UnavailableResponse]
    /\ pc' = [pc EXCEPT ![r] = "done"]
    /\ UNCHANGED <<artifacts, MODEL, FEATURE_NAMES, MODEL_LOADED_STATUS, REQUEST_COUNT,
                   REQUEST_LATENCY, request, frame, calls, stVars>>

\* lines 100-106: the timer starts and the try block is entered
GateOpen(r) ==
    /\ pc[r] = "gate"
    /\ MODEL # None
    /\ frame' = [frame EXCEPT ![r].timing = TRUE]
    /\ pc' = [pc EXCEPT ![r] = "try"]
    /\ UNCHANGED <<artifacts, MODEL, FEATURE_NAMES, MODEL_LOADED_STATUS, REQUEST_COUNT,
                   REQUEST_LATENCY, request, response, calls, stVars>>

\* lines 109-125
NormalizeStep(r) ==
    /\ pc[r] = "try"
    /\ LET res == Normalize(request[r])
       IN  /\ frame' = [frame EXCEPT ![r].data = res.data, ![r].norm = res.norm,
                                     ![r].exc = res.exc]
           /\ pc' = [pc EXCEPT ![r] = IF res.ok THEN "build" ELSE "except"]
    /\ calls' = [calls EXCEPT ![r].normalizer = @ + 1]
    /\ UNCHANGED <<artifacts, MODEL, FEATURE_NAMES, MODEL_LOADED_STATUS, REQUEST_COUNT,
                   REQUEST_LATENCY, request, response, stVars>>

\* lines 128-143; iterating over None is a TypeError
BuildVector(r) ==
    /\ pc[r] = "build"
    /\ IF FEATURE_NAMES = None
       THEN /\ frame' = [frame EXCEPT ![r].exc =
                            Raise("TypeError", "'NoneType' object is not iterable")]
            /\ pc' = [pc EXCEPT ![r] = "except"]
       ELSE /\ frame' = [frame EXCEPT
                            ![r].input_dict = AppInputDict(FEATURE_NAMES.v, frame[r].norm),
                            ![r].input_df = AppInputDf(FEATURE_NAMES.v, frame[r].norm)]
            /\ pc' = [pc EXCEPT ![r] = "predict"]
    /\ calls' = [calls EXCEPT ![r].builder = @ + 1]
    /\ UNCHANGED <<artifacts, MODEL, FEATURE_NAMES, MODEL_LOADED_STATUS, REQUEST_COUNT,
                   REQUEST_LATENCY, request, response, stVars>>

\* line 146: the model answers or raises
Predict(r) ==
    /\ pc[r] = "predict"
    /\ \E out \in ModelOutcomes :
          /\ frame' = [frame EXCEPT ![r].prediction = IF out.ok THEN Num(out.v) ELSE Unset,
                                    ![r].exc = out.exc]
          /\ pc' = [pc EXCEPT ![r] = IF out.ok THEN "respond" ELSE "except"]
    /\ calls' = [calls EXCEPT ![r].model = @ + 1]
    /\ UNCHANGED <<artifacts, MODEL, FEATURE_NAMES, MODEL_LOADED_STATUS, REQUEST_COUNT,
                   REQUEST_LATENCY, request, response, stVars>>

\* lines 149-152
RespondOk(r) ==
    /\ pc[r] = "respond"
    /\ response' = [response EXCEPT ![r] = SuccessResponse(frame[r].prediction.v)]
    /\ pc' = [pc EXCEPT ![r] = "finally"]
    /\ UNCHANGED <<artifacts, MODEL, FEATURE_NAMES, MODEL_LOADED_STATUS, REQUEST_COUNT,
                   REQUEST_LATENCY, request, frame, calls, stVars>>

\* lines 154-156
Except(r) ==
    /\ pc[r] = "except"
    /\ response' = [response EXCEPT ![r] = ErrorResponse(frame[r].exc)]
    /\ pc' = [pc EXCEPT ![r] = "finally"]
    /\ UNCHANGED <<artifacts, MODEL, FEATURE_NAMES, MODEL_LOADED_STATUS, REQUEST_COUNT,
                   REQUEST_LATENCY, request, frame, calls, stVars>>

\* the finally block gone wrong: nothing is observed
Finally_NoObserve(r) ==
    /\ pc[r] = "finally"
    /\ pc' = [pc EXCEPT ![r] = "done"]
    /\ UNCHANGED <<artifacts, MODEL, FEATURE_NAMES, MODEL_LOADED_STATUS, REQUEST_COUNT,
                   REQUEST_LATENCY, request, frame, response, calls, stVars>>

\* lines 158-161
Finally(r) ==
    /\ pc[r] = "finally"
    /\ REQUEST_LATENCY' = REQUEST_LATENCY + 1
    /\ pc' = [pc EXCEPT ![r] = "done"]
    /\ UNCHANGED <<artifacts, MODEL, FEATURE_NAMES, MODEL_LOADED_STATUS, REQUEST_COUNT,
                   request, frame, response, calls, stVars>>

\* streamlitapp.py lines 158-176: the script run with the predict button pressed
StPredictButton ==
    /\ st_model # None
    /\ st_run = Unset
    /\ \E out \in ModelOutcomes :
          st_run' = [user_input |-> get_user_input(st_widgets),
                     input_df |-> StInputDf(st_feature_names.v, get_user_input(st_widgets)),
                     out |-> out]
    /\ UNCHANGED <<appVars, st_model, st_feature_names, st_widgets>>

\* one /predict request at a time
Next ==
    \/ Enter(1, Requests)
    \/ GateUnavailable(1)
    \/ GateOpen(1)
    \/ NormalizeStep(1)
    \/ BuildVector(1)
    \/ Predict(1)
    \/ RespondOk(1)
    \/ Except(1)
    \/ Finally(1)

Spec == Init /\ [][Next]_vars

\* the hosting layer runs the handler on several threads
NextConc ==
    \/ \E r \in RequestIds : Enter(r, ConcRequests)
    \/ \E r \in RequestIds : GateUnavailable(r)
    \/ \E r \in RequestIds : GateOpen(r)
    \/ \E r \in RequestIds : NormalizeStep(r)
    \/ \E r \in RequestIds : BuildVector(r)
    \/ \E r \in RequestIds : Predict(r)
    \/ \E r \in RequestIds : RespondOk(r)
    \/ \E r \in RequestIds : Except(r)
    \/ \E r \in RequestIds : Finally(r)

SpecConc == Init /\ [][NextConc]_vars

\* ------------------------------------------- both vector builders, side by side
\* the category selections: every legal triple
Selections ==
    [cut : Range(CUT_OPTIONS),
     color_label : {color_options[k] : k \in Range(COLOR_KEYS)},
     clarity_label : {clarity_options[k] : k \in Range(CLARITY_KEYS)}]

\* the smallest whole value of each slider (carat starts at 0.2)
SliderMin == [carat |-> 1, depth |-> 40, table |-> 40, x |-> 0, y |-> 0, z |-> 0]

\* the numeric widget values: every combination of the MaxNum + 1 smallest
\* whole values of each slider
Dimensions ==
    [carat : SliderMin.carat..(SliderMin.carat + MaxNum),
     depth : SliderMin.depth..(SliderMin.depth + MaxNum),
     table : SliderMin.table..(SliderMin.table + MaxNum),
     x : SliderMin.x..(SliderMin.x + MaxNum),
     y : SliderMin.y..(SliderMin.y + MaxNum),
     z : SliderMin.z..(SliderMin.z + MaxNum)]

Widgets(dim, sel) ==
    [carat |-> dim.carat, depth |-> dim.depth, table |-> dim.table,
     x |-> dim.x, y |-> dim.y, z |-> dim.z,
     cut |-> sel.cut, color_label |-> sel.color_label,
     clarity_label |-> sel.clarity_label]

FirstSelection ==
    [cut |-> CUT_OPTIONS[1], color_label |-> color_options[COLOR_KEYS[1]],
     clarity_label |-> clarity_options[CLARITY_KEYS[1]]]
LastSelection ==
    [cut |-> CUT_OPTIONS[Len(CUT_OPTIONS)],
     color_label |-> color_options[COLOR_KEYS[Len(COLOR_KEYS)]],
     clarity_label |-> clarity_options[CLARITY_KEYS[Len(CLARITY_KEYS)]]]
Flat(v) == [f \in DOMAIN SliderMin |-> SliderMin[f] + v]

\* the widget states the sidebar is put in: every combination of dimensions
\* under the first and the last selection, and every selection under the
\* smallest and the largest dimensions
WidgetStates ==
    {Widgets(dim, sel) : dim \in Dimensions, sel \in {FirstSelection, LastSelection}}
    \cup {Widgets(dim, sel) : dim \in {Flat(0), Flat(MaxNum)}, sel \in Selections}

\* the categorical fields a client mistypes: none, or one of them
Mistyped == {{}} \cup {{f} : f \in CategoricalKeys}

\* the JSON payload that carries the input of the dashboard, with the fields
\* of `bad` replaced by a category the schema does not know
PayloadOf(user_input, bad) ==
    [k \in NumericKeys \cup CategoricalKeys |->
        IF k \in NumericKeys THEN Num(user_input[k])
        ELSE IF k \in bad THEN Str(UnknownCategory(k))
        ELSE Str(user_input[k])]

\* request 1 has passed the gate and the normalizer; the dashboard shows the
\* same stone
InitBuild ==
    /\ Startup({MODEL_PATH, FEATURE_PATH, ST_MODEL_PATH})
    /\ \E w \in WidgetStates, bad \in Mistyped :
          LET req == Request(Dict(PayloadOf(get_user_input(w), bad)), EmptyDict)
              res == Normalize(req)
          IN  /\ st_widgets = w
              /\ request = [r \in RequestIds |-> IF r = 1 THEN req ELSE Unset]
              /\ frame = [r \in RequestIds |->
                            IF r = 1
                            THEN [NoFrame EXCEPT !.data = res.data, !.norm = res.norm,
                                                 !.timing = TRUE]
                            ELSE NoFrame]
    /\ pc = [r \in RequestIds |-> IF r = 1 THEN "build" ELSE "idle"]
    /\ response = [r \in RequestIds |-> Unset]
    /\ calls = [r \in RequestIds |->
                  IF r = 1 THEN [NoCalls EXCEPT !.normalizer = 1] ELSE NoCalls]

NextBuild ==
    \/ BuildVector(1)
    \/ StPredictButton

SpecBuild == InitBuild /\ [][NextBuild]_vars

\* ================================================================ properties
\* the name the schema gives the column of a (field, category) pair
SchemaName(field, category) == field \o "_" \o category

\* the positions of a categorical field's one-hot block
Block(names, field) ==
    {i \in 1..Len(names) :
        \E c \in Range(Options(field)) : names[i] = SchemaName(field, c)}

Normalized(r) == calls[r].normalizer = 1
Built(r) == calls[r].builder = 1 /\ FEATURE_NAMES # None
ErrorPrefix == "An error occurred during prediction: "
NoInputMsg == "No input data provided in the request body."

\* the values float() converts: numbers, and strings that are a float literal
Floatable(v) ==
    \/ v.t = "num"
    \/ v.t = "str" /\ v.s \in DOMAIN FloatValue
FloatOf(v) == IF v.t = "num" THEN v.v ELSE FloatValue[v.s]

\* the numeric fields of a payload that are present and that float() rejects
Rejected(d) == {f \in NumericKeys : f \in DOMAIN d /\ ~Floatable(d[f])}
FirstRejected(d) ==
    NumericFields[CHOOSE i \in 1..Len(NumericFields) :
                     /\ NumericFields[i] \in Rejected(d)
                     /\ \A j \in 1..(i - 1) : NumericFields[j] \notin Rejected(d)]

Defaults ==
    [carat |-> 0, depth |-> 0, table |-> 0, x |-> 0, y |-> 0, z |-> 0,
     cut |-> Str("Ideal"), color |-> Str("D"), clarity |-> Str("IF")]

\* ---------------------------------------------------------------------- C1
\* C1: when the model file or the feature file was missing at start, every
\* /predict request is answered 500 "Model not loaded on the server." and
\* neither the normalizer nor the vector builder nor the model runs for it.
C1_UnavailableGate ==
    (MODEL_PATH \notin artifacts \/ FEATURE_PATH \notin artifacts) =>
        \A r \in RequestIds :
            /\ calls[r].normalizer = 0 /\ calls[r].builder = 0 /\ calls[r].model = 0
            /\ pc[r] \in {"idle", "gate", "done"}
            /\ pc[r] = "done" =>
                  /\ response[r].status = 500
                  /\ response[r].body.error = "Model not loaded on the server."

\* the model file is there, the feature file is not, and a request with a
\* non-empty JSON payload has been answered
C1_Witness ==
    /\ artifacts = {MODEL_PATH}
    /\ pc[1] = "done"
    /\ request[1].json.t = "dict"
    /\ "carat" \in DOMAIN request[1].json.d

C3_Original ==
    \A r \in RequestIds :
        (/\ Normalized(r)
         /\ request[r].json.t = "dict"
         /\ DOMAIN request[r].json.d \cap (NumericKeys \cup CategoricalKeys) = {}) =>
            frame[r].norm = Defaults

\* C3 amended: a non-empty payload that has none of the nine fields
\* normalizes without failure to carat = depth = table = x = y = z = 0.0,
\* cut = "Ideal", color = "D", clarity = "IF"; the empty payload {} is
\* rejected with "No input data provided in the request body.".
C3_Amended ==
    \A r \in RequestIds :
        Normalized(r) =>
            /\ (/\ frame[r].data.t = "dict"
                /\ DOMAIN frame[r].data.d # {}
                /\ DOMAIN frame[r].data.d \cap (NumericKeys \cup CategoricalKeys) = {}) =>
                   /\ frame[r].norm = Defaults
                   /\ pc[r] = "except" => calls[r].model = 1
            /\ (request[r].json.t = "dict" /\ DOMAIN request[r].json.d = {}) =>
                   /\ frame[r].norm = Unset
                   /\ frame[r].exc = Raise("ValueError", NoInputMsg)

\* a payload with the one key "foo" has been normalized
C3_Witness ==
    /\ Normalized(1)
    /\ request[1].json.t = "dict"
    /\ DOMAIN request[1].json.d = {UnknownKey}
    /\ frame[1].norm = Defaults

C5_UnknownCategorySilent ==
    \A r \in RequestIds :
        calls[r].builder = 1 =>
            \A f \in CategoricalKeys :
                SchemaName(f, frame[r].norm[f].s) \notin Range(FEATURE_NAMES.v) =>
                    /\ pc[r] = "predict"
                    /\ frame[r].exc = NoExc
                    /\ DOMAIN frame[r].input_df = 1..Len(FEATURE_NAMES.v)
                    /\ \A i \in Block(FEATURE_NAMES.v, f) : frame[r].input_df[i] = 0
                    /\ \A i \in 1..Len(FEATURE_NAMES.v) :
                          FEATURE_NAMES.v[i] \in NumericKeys =>
                              frame[r].input_df[i] = frame[r].norm[FEATURE_NAMES.v[i]]

\* a vector was built for cut = "NotARealCut"
C5_Witness ==
    /\ calls[1].builder = 1
    /\ frame[1].norm.cut = Str("NotARealCut")
    /\ frame[1].norm.color = Str("J")

\* ---------------------------------------------------------------------- C6
\* C6: for a legal (cut, color, clarity) and any numeric inputs the vector has
\* one element per feature name in schema order: the numeric positions hold
\* the numeric values, the position of each field's category holds 1, exactly
\* one per one-hot block and three in all, every other position holds 0.
C6_OneHot ==
    \A r \in RequestIds :
        (/\ calls[r].builder = 1
         /\ \A f \in CategoricalKeys : frame[r].norm[f].s \in Range(Options(f))) =>
            LET names == FEATURE_NAMES.v
                n == frame[r].norm
                v == frame[r].input_df
                hot == {i \in 1..Len(names) : names[i] \notin NumericKeys /\ v[i] = 1}
            IN  /\ DOMAIN v = 1..Len(names)
                /\ \A i \in 1..Len(names) :
                      v[i] = IF names[i] \in NumericKeys THEN n[names[i]]
                             ELSE IF \E f \in CategoricalKeys :
                                        names[i] = SchemaName(f, n[f].s)
                             THEN 1 ELSE 0
                /\ Cardinality(hot) = 3
                /\ \A f \in CategoricalKeys :
                      Cardinality(hot \cap Block(names, f)) = 1

\* a vector was built for the last option of every field, with a numeric
\* input that is itself 1
C6_Witness ==
    /\ calls[1].builder = 1
    /\ frame[1].norm.cut = Str("Fair")
    /\ frame[1].norm.color = Str("J")
    /\ frame[1].norm.clarity = Str("I1")
    /\ frame[1].norm.x = 1
    /\ frame[1].norm.y = 0

\* ---------------------------------------------------------------------- C7
\* C7: with the model loaded an exception of the normalizer or of the model
\* call is answered with status 400 and an error text that carries its
\* description, a request without exception is answered with the price, and
\* a request is answered once: its response, once set, does not change.
C7_StateAfter ==
    \A r \in RequestIds :
        /\ pc[r] = "done" =>
              response[r] # Unset /\ response[r].status \in {200, 400, 500}
        /\ (MODEL # None /\ pc[r] \in {"finally", "done"}) =>
              IF frame[r].exc # NoExc
              THEN /\ response[r].status = 400
                   /\ response[r].body.error = ErrorPrefix \o frame[r].exc.msg
              ELSE /\ response[r].status = 200
                   /\ response[r].body.raw_price = frame[r].prediction.v

C7_ExceptionsAnswered ==
    [][/\ C7_StateAfter'
       /\ \A r \in RequestIds :
             response[r] # Unset => response'[r] = response[r]]_vars

\* the model raised and the request was answered 400
C7_Witness ==
    /\ pc[1] = "done"
    /\ calls[1].model = 1
    /\ frame[1].exc.msg = "X has a different shape"
    /\ response[1].status = 400

\* ---------------------------------------------------------------------- C8
\* C8 as stated: every /predict call records one request-count increment and
\* one latency observation, whatever its outcome.
C8_Original ==
    /\ REQUEST_COUNT = Cardinality({r \in RequestIds : pc[r] # "idle"})
    /\ REQUEST_LATENCY = Cardinality({r \in RequestIds : pc[r] = "done"})

\* C8 amended: every /predict call records one request-count increment; a
\* call that passes the model gate (answered 400 or with a price) records one
\* latency observation, a call answered 500 by the gate records none.
C8_Amended ==
    /\ REQUEST_COUNT = Cardinality({r \in RequestIds : pc[r] # "idle"})
    /\ REQUEST_LATENCY =
          Cardinality({r \in RequestIds : pc[r] = "done" /\ response[r].status # 500})
    /\ \A r \in RequestIds :
          (pc[r] = "done" /\ response[r].status = 500) => ~frame[r].timing

\* one request answered 400 and one answered with a price
C8_Witness ==
    /\ pc[1] = "done" /\ response[1].status = 400
    /\ pc[2] = "done" /\ response[2].status = 200
    /\ REQUEST_LATENCY = 2

\* ---------------------------------------------------------------------- C9
\* the vector of a payload, position by position
ExpectedVector(names, req) ==
    LET d == PyOr(req.json, req.form).d
        Cat(f, default) == IF f \in DOMAIN d THEN d[f].s ELSE default
    IN  [i \in 1..Len(names) |->
            IF names[i] \in NumericKeys
            THEN (IF names[i] \in DOMAIN d THEN FloatOf(d[names[i]]) ELSE 0)
            ELSE IF \/ names[i] = SchemaName("cut", Cat("cut", "Ideal"))
                    \/ names[i] = SchemaName("color", Cat("color", "D"))
                    \/ names[i] = SchemaName("clarity", Cat("clarity", "IF"))
            THEN 1 ELSE 0]

\* C9: under every interleaving of concurrent requests the model and the
\* feature names stay as loaded, a step of one request leaves the locals of
\* the others alone, and the vector built for a request is the vector of its
\* own payload under the schema.
C9_SharedReadOnly ==
    [][/\ MODEL' = MODEL
       /\ FEATURE_NAMES' = FEATURE_NAMES
       /\ \A r \in RequestIds :
             /\ pc'[r] = pc[r] => frame'[r] = frame[r]
             /\ Built(r)' => frame'[r].input_df = ExpectedVector(FEATURE_NAMES'.v, request'[r])]_vars

\* two requests with different payloads have both built their vectors
C9_Witness ==
    /\ Built(1) /\ Built(2)
    /\ frame[1].norm.cut = Str("Premium")
    /\ frame[2].norm.cut = Str("NotARealCut")
    /\ frame[1].input_df # frame[2].input_df
    /\ pc[1] = "predict" /\ pc[2] = "predict"

\* --------------------------------------------------------------------- C10
\* C10: for the same schema, the same six numeric values and the same
\* cut/color/clarity, the vector of the API handler equals the vector of the
\* dashboard position by position.
C10_SameVector ==
    (/\ calls[1].builder = 1
     /\ st_run # Unset
     /\ FEATURE_NAMES = st_feature_names
     /\ \A f \in NumericKeys : frame[1].norm[f] = st_run.user_input[f]
     /\ \A f \in CategoricalKeys : frame[1].norm[f] = Str(st_run.user_input[f])) =>
        /\ Len(frame[1].input_df) = Len(st_run.input_df)
        /\ \A i \in 1..Len(st_run.input_df) : frame[1].input_df[i] = st_run.input_df[i]

\* both programs built the vector of the same stone, a Good cut of color G
C10_Witness ==
    /\ calls[1].builder = 1
    /\ st_run # Unset
    /\ st_run.user_input.cut = "Good"
    /\ st_run.user_input.color = "G"
    /\ st_run.user_input.x = MaxNum
    /\ frame[1].norm.cut = Str("Good")
    /\ frame[1].norm.color = Str("G")
    /\ frame[1].norm.clarity = Str(st_run.user_input.clarity)

====
